---- MODULE Spec2Model ----
\* A model of lcoe.py: the batch transform that reads the LCOE table, filters
\* it, renames categories, imputes the three LCOE fields, groups the values per
\* category, sorts the categories by mean and draws the chart.
\*
\* Numbers.  The table holds floats; the model holds exact rationals with a
\* fixed denominator: every number is an integer count of 1/Scale units, so
\* that the one division of the imputation, (low + high)/2, is exact.  The
\* mean of an array is kept as the pair <<sum, length>> and two means are
\* compared by cross-multiplication.  Floating-point rounding and NaN cells
\* are outside the model.
EXTENDS Integers, Sequences, FiniteSets, TLC

VARIABLES pc, csv, df_lcoe, lcoe_keys, lcoe_values, keyed_lcoe_values,
          bp, yticks, points, annotations

vars == <<pc, csv, df_lcoe, lcoe_keys, lcoe_values, keyed_lcoe_values,
          bp, yticks, points, annotations>>

\* ---------------------------------------------------------------- bounds
MaxRows == 3     \* longest table of the multi-row inputs
MaxVal  == 10    \* largest field value of the one-row inputs (whole units)
MaxNeg  == 2     \* most negative field value of the one-row inputs

\* Model numbers are counts of 1/Scale: a whole input survives two successive
\* halvings (the imputation's, and one more when imputation is applied again).
Scale == 2 * 2

\* ------------------------------------------------------- fixed tables
skipped_types ==
  {"Depreciated Coal", "20-30% CCS", "90+% CCS", "IGCC with CCS",
   "Supercritical with CCS", "Combustion Turbine", "Gas Peaking",
   "Natural Gas CCS", "Diesel Generator", "Biomass Microgrid",
   "Incineration with CCS", "Depreciated Nuclear", "Advanced Nuclear",
   "Small Modular Reactor", "Generation IV", "Sodium-Cooled Fast Reactor",
   "High Temperature Reactor", "Fusion", "Refurbishments", "Organic PV",
   "Solar Updraft Tower", "Space-Based Solar", "Distributed Solar - Small",
   "Distributed Solar - Large", "Community Solar", "High Altitude",
   "Wind Microgrid", "Enhanced Geothermal System", "Hydrothermal Vents",
   "Fuel Cell", "Solid Oxide Fuel Cells", "Molten Carbonate Fuel Cells"}

category_changes ==
  ("Photovoltaics" :> "Solar PV") @@
  ("Crystalline PV" :> "Solar PV") @@
  ("Thin Film PV" :> "Solar PV") @@
  ("Perovskite" :> "Solar PV") @@
  ("Organic PV" :> "Solar PV") @@
  ("PV Fixed" :> "Solar PV") @@
  ("PV 1-Axis Tracking" :> "Solar PV") @@
  ("PV 2-Axis Tracking" :> "Solar PV") @@
  ("Solar Thermal" :> "Solar,\nNon-PV") @@
  ("Solar Thermal without Storage" :> "Solar,\nNon-PV") @@
  ("Solar Thermal with Storage" :> "Solar,\nNon-PV") @@
  ("Concentrated PV" :> "Solar,\nNon-PV") @@
  ("Onshore Wind" :> "Onshore\nWind") @@
  ("Offshore Wind" :> "Offshore\nWind") @@
  ("Deep Offshore" :> "Offshore\nWind") @@
  ("Floating Offshore" :> "Offshore\nWind") @@
  ("Offshore Vertical Axis" :> "Offshore\nWind") @@
  ("MHK" :> "Ocean") @@
  ("Tidal" :> "Ocean") @@
  ("Wave" :> "Ocean") @@
  ("OTEC" :> "Ocean") @@
  ("Osmotic" :> "Ocean") @@
  ("Oil Power Plant" :> "Oil")

key_box_values ==
  [i \in 1..17 |->
     Scale * <<26,27,28,29,30,31,32,33,34,35,36,37,38,39,47,48,79>>[i]]

\* ------------------------------------------------------------ helpers
RECURSIVE SumSeq(_)
SumSeq(s) == IF s = <<>> THEN 0 ELSE Head(s) + SumSeq(Tail(s))

RECURSIVE SelectRows(_, _)
SelectRows(s, keep) ==
  IF s = <<>> THEN <<>>
  ELSE IF keep[1] THEN <<Head(s)>> \o SelectRows(Tail(s), Tail(keep))
       ELSE SelectRows(Tail(s), Tail(keep))

InSeq(x, s) == \E i \in 1..Len(s) : s[i] = x

\* One row of the table: the pandas index label and the five named fields.
Row(i, cat, typ, l, lo, hi) ==
  ("idx" :> i) @@ ("Category" :> cat) @@ ("Type" :> typ) @@
  ("LCOE" :> l) @@ ("LCOE Low" :> lo) @@ ("LCOE High" :> hi)

\* pandas Series.isin
isin(typ, values) == typ \in values

\* the filter with the negation left out
FilterRows_negation_dropped(df) ==
  SelectRows(df, [i \in 1..Len(df) |-> isin(df[i]["Type"], skipped_types)])

\* df_lcoe[~df_lcoe["Type"].isin(skipped_types)]
FilterRows(df) ==
  SelectRows(df, [i \in 1..Len(df) |-> ~isin(df[i]["Type"], skipped_types)])

\* the lookup keyed by the row's Category instead of its Type
rename_category_by_category(row) ==
  IF row["Category"] \in DOMAIN category_changes
    THEN category_changes[row["Category"]]
    ELSE row["Category"]

rename_category(row) ==
  IF row["Type"] \in DOMAIN category_changes
    THEN category_changes[row["Type"]]
    ELSE row["Category"]

\* the column itself, repetitions kept
unique_repetitions_kept(s) == s

\* pandas Series.unique: the distinct values in order of first appearance
RECURSIVE unique(_)
unique(s) ==
  IF s = <<>> THEN <<>>
  ELSE LET u == unique(SubSeq(s, 1, Len(s) - 1))
           x == s[Len(s)]
       IN  IF InSeq(x, u) THEN u ELSE Append(u, x)

\* the halving applied to the high bound only: low + high/2
interpolate_lcoe_precedence(row) ==
  IF row["LCOE"] > 0 THEN row["LCOE"]
  ELSE row["LCOE Low"] + (row["LCOE High"] \div 2)

interpolate_lcoe(row) ==
  IF row["LCOE"] > 0 THEN row["LCOE"]
  ELSE (row["LCOE Low"] + row["LCOE High"]) \div 2

\* the missing low bound taken from the high bound instead of the point
interpolate_lcoe_low_from_high(row) ==
  IF row["LCOE Low"] > 0 THEN row["LCOE Low"] ELSE row["LCOE High"]

interpolate_lcoe_low(row) ==
  IF row["LCOE Low"] > 0 THEN row["LCOE Low"] ELSE row["LCOE"]

\* the missing high bound taken from the low bound instead of the point
interpolate_lcoe_high_from_low(row) ==
  IF row["LCOE High"] > 0 THEN row["LCOE High"] ELSE row["LCOE Low"]

interpolate_lcoe_high(row) ==
  IF row["LCOE High"] > 0 THEN row["LCOE High"] ELSE row["LCOE"]

\* df[col] = series, the series being the result of df.apply(f, axis=1)
AssignColumn(df, col, series) ==
  [i \in 1..Len(df) |-> [df[i] EXCEPT ![col] = series[i]]]

Column(df, col) == [i \in 1..Len(df) |-> df[i][col]]

\* the three columns concatenated point first
get_lcoe_by_category_point_first(df, category) ==
  LET df_cat == SelectRows(df, [i \in 1..Len(df) |-> df[i]["Category"] = category])
      lcoe_low  == Column(df_cat, "LCOE Low")
      lcoe      == Column(df_cat, "LCOE")
      lcoe_high == Column(df_cat, "LCOE High")
  IN  lcoe \o lcoe_low \o lcoe_high

get_lcoe_by_category(df, category) ==
  LET df_cat == SelectRows(df, [i \in 1..Len(df) |-> df[i]["Category"] = category])
      lcoe_low  == Column(df_cat, "LCOE Low")
      lcoe      == Column(df_cat, "LCOE")
      lcoe_high == Column(df_cat, "LCOE High")
  IN  lcoe_low \o lcoe \o lcoe_high

\* the key without its minus sign
SortKey_ascending(x) == <<SumSeq(x[2]), Len(x[2])>>

\* key=lambda x: -sum(x[1]/len(x[1])), as the rational <<numerator, denominator>>
SortKey(x) == <<0 - SumSeq(x[2]), Len(x[2])>>

KeyLess(k1, k2) == k1[1] * k2[2] < k2[1] * k1[2]

\* Insert x into the sorted list s after every element that does not compare
\* greater than it (stability).
RECURSIVE InsertSorted(_, _)
InsertSorted(s, x) ==
  IF s = <<>> THEN <<x>>
  ELSE IF KeyLess(SortKey(x), SortKey(s[Len(s)]))
         THEN Append(InsertSorted(SubSeq(s, 1, Len(s) - 1), x), s[Len(s)])
         ELSE Append(s, x)

\* sorted(list, key=...): a stable ascending sort on the key
RECURSIVE sorted(_)
sorted(s) ==
  IF s = <<>> THEN <<>>
  ELSE InsertSorted(sorted(SubSeq(s, 1, Len(s) - 1)), s[Len(s)])

unpack_values(kv) == [i \in 1..Len(kv) |-> kv[i][2]]

\* every label read from the first pair
unpack_keys_first_pair(kv) == [i \in 1..Len(kv) |-> kv[1][1]]

unpack_keys(kv) == [i \in 1..Len(kv) |-> kv[i][1]]

\* Vertical chart coordinates are kept in hundredths.
\* positions=list(range(1,len(lcoe_values)+1))+[len(lcoe_values)-0.5]
boxplot(values) ==
  LET n == Len(values)
  IN  [i \in 1..(n + 1) |->
         IF i <= n THEN [position |-> 100 * i, data |-> values[i]]
                   ELSE [position |-> 100 * n - 50, data |-> key_box_values]]

\* plt.yticks(range(1,len(lcoe_values)+1), lcoe_keys)
set_yticks(values, keys) ==
  [i \in 1..Len(values) |-> [position |-> 100 * i, label |-> keys[i]]]

\* ax.plot(lcoe_values[i][j], i+1, marker="o"), i counted from 0 in the source
plot_points(values) ==
  [i \in 1..Len(values) |->
     [j \in 1..Len(values[i]) |-> [x |-> values[i][j], y |-> 100 * i]]]

\* mean_value = sum/len; ax.annotate(..., xy=(mean_value,i), xytext=(mean_value-1, i+0.45))
annotate_means(values) ==
  [i \in 1..Len(values) |->
     [mean_value |-> <<SumSeq(values[i]), Len(values[i])>>,
      xy_y       |-> 100 * (i - 1),
      xytext_y   |-> 100 * (i - 1) + 45]]

\* ----------------------------------------------------------- inputs
TypeCategorySample ==
  { <<"Fusion", "Nuclear">>, <<"Organic PV", "Solar">>, <<"Tidal", "MHK">>,
    <<"MHK", "MHK">>, <<"Supercritical", "Coal">>, <<"Onshore Wind", "Wind">> }

\* <<LCOE, LCOE Low, LCOE High>> of the multi-row inputs, in whole units
TripleSample == { <<4, 0, 0>>, <<0, 2, 10>>, <<1, 0, 3>> }

Values == (0 - MaxNeg)..MaxVal

OneRowTables ==
  { << Row(0, tc[2], tc[1], Scale * l, Scale * lo, Scale * hi) >> :
      tc \in TypeCategorySample, l \in Values, lo \in Values, hi \in Values }

RowSample ==
  { <<tc, t>> : tc \in TypeCategorySample, t \in TripleSample }

MultiRowTables ==
  UNION { { [i \in 1..n |->
               Row(i - 1, f[i][1][2], f[i][1][1],
                   Scale * f[i][2][1], Scale * f[i][2][2], Scale * f[i][2][3])] :
            f \in [1..n -> RowSample] } : n \in 2..MaxRows }

\* ------------------------------------------------------------- Init
\* The state after pd.read_csv.
Init ==
  /\ csv \in OneRowTables \cup MultiRowTables
  /\ df_lcoe = csv
  /\ pc = "filter"
  /\ lcoe_keys = <<>>
  /\ lcoe_values = <<>>
  /\ keyed_lcoe_values = <<>>
  /\ bp = <<>>
  /\ yticks = <<>>
  /\ points = <<>>
  /\ annotations = <<>>

\* ---------------------------------------------------------- actions
Filter ==
  /\ pc = "filter"
  /\ df_lcoe' = FilterRows(df_lcoe)
  /\ pc' = "rename"
  /\ UNCHANGED <<csv, lcoe_keys, lcoe_values, keyed_lcoe_values,
                 bp, yticks, points, annotations>>

Rename ==
  /\ pc = "rename"
  /\ df_lcoe' = AssignColumn(df_lcoe, "Category",
                  [i \in 1..Len(df_lcoe) |-> rename_category(df_lcoe[i])])
  /\ pc' = "unique"
  /\ UNCHANGED <<csv, lcoe_keys, lcoe_values, keyed_lcoe_values,
                 bp, yticks, points, annotations>>

Unique ==
  /\ pc = "unique"
  /\ lcoe_keys' = unique(Column(df_lcoe, "Category"))
  /\ pc' = "interpolate_lcoe"
  /\ UNCHANGED <<csv, df_lcoe, lcoe_values, keyed_lcoe_values,
                 bp, yticks, points, annotations>>

InterpolateLcoe ==
  /\ pc = "interpolate_lcoe"
  /\ df_lcoe' = AssignColumn(df_lcoe, "LCOE",
                  [i \in 1..Len(df_lcoe) |-> interpolate_lcoe(df_lcoe[i])])
  /\ pc' = "interpolate_lcoe_low"
  /\ UNCHANGED <<csv, lcoe_keys, lcoe_values, keyed_lcoe_values,
                 bp, yticks, points, annotations>>

InterpolateLcoeLow ==
  /\ pc = "interpolate_lcoe_low"
  /\ df_lcoe' = AssignColumn(df_lcoe, "LCOE Low",
                  [i \in 1..Len(df_lcoe) |-> interpolate_lcoe_low(df_lcoe[i])])
  /\ pc' = "interpolate_lcoe_high"
  /\ UNCHANGED <<csv, lcoe_keys, lcoe_values, keyed_lcoe_values,
                 bp, yticks, points, annotations>>

InterpolateLcoeHigh ==
  /\ pc = "interpolate_lcoe_high"
  /\ df_lcoe' = AssignColumn(df_lcoe, "LCOE High",
                  [i \in 1..Len(df_lcoe) |-> interpolate_lcoe_high(df_lcoe[i])])
  /\ pc' = "aggregate"
  /\ UNCHANGED <<csv, lcoe_keys, lcoe_values, keyed_lcoe_values,
                 bp, yticks, points, annotations>>

Aggregate ==
  /\ pc = "aggregate"
  /\ lcoe_values' = [i \in 1..Len(lcoe_keys) |->
                       get_lcoe_by_category(df_lcoe, lcoe_keys[i])]
  /\ pc' = "keyed"
  /\ UNCHANGED <<csv, df_lcoe, lcoe_keys, keyed_lcoe_values,
                 bp, yticks, points, annotations>>

Keyed ==
  /\ pc = "keyed"
  /\ keyed_lcoe_values' = [i \in 1..Len(lcoe_keys) |-> <<lcoe_keys[i], lcoe_values[i]>>]
  /\ pc' = "sort"
  /\ UNCHANGED <<csv, df_lcoe, lcoe_keys, lcoe_values,
                 bp, yticks, points, annotations>>

Sort ==
  /\ pc = "sort"
  /\ keyed_lcoe_values' = sorted(keyed_lcoe_values)
  /\ pc' = "unpack_values"
  /\ UNCHANGED <<csv, df_lcoe, lcoe_keys, lcoe_values,
                 bp, yticks, points, annotations>>

UnpackValues ==
  /\ pc = "unpack_values"
  /\ lcoe_values' = unpack_values(keyed_lcoe_values)
  /\ pc' = "unpack_keys"
  /\ UNCHANGED <<csv, df_lcoe, lcoe_keys, keyed_lcoe_values,
                 bp, yticks, points, annotations>>

UnpackKeys ==
  /\ pc = "unpack_keys"
  /\ lcoe_keys' = unpack_keys(keyed_lcoe_values)
  /\ pc' = "boxplot"
  /\ UNCHANGED <<csv, df_lcoe, lcoe_values, keyed_lcoe_values,
                 bp, yticks, points, annotations>>

Boxplot ==
  /\ pc = "boxplot"
  /\ bp' = boxplot(lcoe_values)
  /\ pc' = "yticks"
  /\ UNCHANGED <<csv, df_lcoe, lcoe_keys, lcoe_values, keyed_lcoe_values,
                 yticks, points, annotations>>

Yticks ==
  /\ pc = "yticks"
  /\ yticks' = set_yticks(lcoe_values, lcoe_keys)
  /\ pc' = "overlay"
  /\ UNCHANGED <<csv, df_lcoe, lcoe_keys, lcoe_values, keyed_lcoe_values,
                 bp, points, annotations>>

\* The loop that draws every estimate and annotates every mean, then savefig.
Overlay ==
  /\ pc = "overlay"
  /\ points' = plot_points(lcoe_values)
  /\ annotations' = annotate_means(lcoe_values)
  /\ pc' = "done"
  /\ UNCHANGED <<csv, df_lcoe, lcoe_keys, lcoe_values, keyed_lcoe_values,
                 bp, yticks>>

Next ==
  \/ Filter
  \/ Rename
  \/ Unique
  \/ InterpolateLcoe
  \/ InterpolateLcoeLow
  \/ InterpolateLcoeHigh
  \/ Aggregate
  \/ Keyed
  \/ Sort
  \/ UnpackValues
  \/ UnpackKeys
  \/ Boxplot
  \/ Yticks
  \/ Overlay

Spec == Init /\ [][Next]_vars

TypeOK == pc \in {"filter", "rename", "unique", "interpolate_lcoe",
                  "interpolate_lcoe_low", "interpolate_lcoe_high", "aggregate",
                  "keyed", "sort", "unpack_values", "unpack_keys", "boxplot",
                  "yticks", "overlay", "done"}

\* ------------------------------------------------- stages and vocabulary
Filtered  == pc \notin {"filter"}
Renamed   == pc \notin {"filter", "rename"}
Imputed   == pc \notin {"filter", "rename", "unique", "interpolate_lcoe",
                        "interpolate_lcoe_low", "interpolate_lcoe_high"}
Aggregated == Imputed /\ pc # "aggregate"
\* lcoe_keys and lcoe_values are both in their pre-sort order
BeforeRanking == pc \in {"keyed", "sort", "unpack_values"}
\* lcoe_keys and lcoe_values have both been replaced by the sorted lists
Ranked    == pc \in {"boxplot", "yticks", "overlay", "done"}

\* The row of the file that a table row came from.
Orig(r) == csv[r["idx"] + 1]

Present(v) == v > 0
Missing(v) == v <= 0

Rows == {df_lcoe[i] : i \in 1..Len(df_lcoe)}

KeptIndices == {i \in 1..Len(csv) : csv[i]["Type"] \notin skipped_types}

\* mean(a) >= mean(b) for non-empty arrays, by cross-multiplication
MeanGeq(a, b) == SumSeq(a) * Len(b) >= SumSeq(b) * Len(a)

\* Positions in the table of the rows of one category, in table order.
RECURSIVE MembersOf(_, _)
MembersOf(category, n) ==
  IF n = 0 THEN <<>>
  ELSE IF df_lcoe[n]["Category"] = category
         THEN Append(MembersOf(category, n - 1), n)
         ELSE MembersOf(category, n - 1)

\* The three imputation steps applied, in the source's order, to one row.
ImputeAgain(r) ==
  LET r1 == [r  EXCEPT !["LCOE"]      = interpolate_lcoe(r)]
      r2 == [r1 EXCEPT !["LCOE Low"]  = interpolate_lcoe_low(r1)]
      r3 == [r2 EXCEPT !["LCOE High"] = interpolate_lcoe_high(r2)]
  IN  r3

NoneMissingAndOrdered(r) ==
  /\ Present(r["LCOE"]) /\ Present(r["LCOE Low"]) /\ Present(r["LCOE High"])
  /\ r["LCOE Low"] <= r["LCOE"]
  /\ r["LCOE"] <= r["LCOE High"]

\* The file gave a point estimate, or a range, or both, and the values it
\* gave are in order.
GivenAndOrdered(o) ==
  /\ Present(o["LCOE"]) \/ (Present(o["LCOE Low"]) /\ Present(o["LCOE High"]))
  /\ (Present(o["LCOE Low"]) /\ Present(o["LCOE High"])) => o["LCOE Low"] <= o["LCOE High"]
  /\ (Present(o["LCOE Low"]) /\ Present(o["LCOE"])) => o["LCOE Low"] <= o["LCOE"]
  /\ (Present(o["LCOE"]) /\ Present(o["LCOE High"])) => o["LCOE"] <= o["LCOE High"]

\* ----------------------------------------------------------------- C1
\* C1 as stated: after the three imputation steps every row, whatever
\* combination of its fields was present, has no missing field and
\* LCOE Low <= LCOE <= LCOE High.
C1_AllRowsCompleteAndOrdered ==
  Imputed => \A r \in Rows : NoneMissingAndOrdered(r)

\* C1 amended: after the three imputation steps, every row whose file values
\* held a point estimate or both bounds, with the given values in order, has
\* no missing field and LCOE Low <= LCOE <= LCOE High.
C1_GivenRowsCompleteAndOrdered ==
  Imputed => \A r \in Rows : GivenAndOrdered(Orig(r)) => NoneMissingAndOrdered(r)

C1_Witness ==
  /\ Imputed
  /\ \E r \in Rows :
       /\ GivenAndOrdered(Orig(r))
       /\ Missing(Orig(r)["LCOE"])
       /\ Orig(r)["LCOE Low"] < Orig(r)["LCOE High"]
  /\ \E r \in Rows :
       /\ GivenAndOrdered(Orig(r))
       /\ Present(Orig(r)["LCOE"])
       /\ Missing(Orig(r)["LCOE Low"])
       /\ Present(Orig(r)["LCOE High"])

\* ----------------------------------------------------------------- C2
\* C2 as stated: applying the three imputation steps again to any imputed
\* row leaves the row unchanged.
C2_Idempotent ==
  Imputed => \A r \in Rows : ImputeAgain(r) = r

\* C2 amended: applying the three imputation steps again to an imputed row
\* leaves it unchanged, for every row whose file values are all >= 0
\* (missing written as 0, never as a negative number).
C2_IdempotentOnNonNegative ==
  Imputed =>
    \A r \in Rows :
      (Orig(r)["LCOE"] >= 0 /\ Orig(r)["LCOE Low"] >= 0 /\ Orig(r)["LCOE High"] >= 0)
        => ImputeAgain(r) = r

C2_Witness ==
  /\ Imputed
  /\ \E r \in Rows :
       /\ Orig(r)["LCOE"] = 0 /\ Orig(r)["LCOE Low"] = 0 /\ Present(Orig(r)["LCOE High"])
       /\ r["LCOE"] # 0 /\ r["LCOE Low"] = r["LCOE"]
       /\ ImputeAgain(r) = r

\* ----------------------------------------------------------------- C3
\* C3: once the filter has run, no row of the table has a Type in
\* skipped_types, the table holds exactly the file's rows of other types, and
\* every category key and every aggregated value comes from such a row.
C3_NoSkippedTypeDownstream ==
  Filtered =>
    /\ \A r \in Rows : r["Type"] \notin skipped_types
    /\ {r["idx"] + 1 : r \in Rows} = KeptIndices
    /\ Len(df_lcoe) = Cardinality(KeptIndices)
    /\ \A k \in 1..Len(lcoe_keys) :
         \E i \in KeptIndices : lcoe_keys[k] = rename_category(csv[i])
    /\ \A k \in 1..Len(lcoe_values) : \A j \in 1..Len(lcoe_values[k]) :
         \E r \in Rows : lcoe_values[k][j] \in {r["LCOE"], r["LCOE Low"], r["LCOE High"]}
    /\ Aggregated =>
         SumSeq([k \in 1..Len(lcoe_values) |-> Len(lcoe_values[k])])
           = 3 * Cardinality(KeptIndices)

C3_Witness ==
  /\ pc = "done"
  /\ Len(csv) = 3
  /\ Cardinality(KeptIndices) = 1
  /\ \E i \in 1..Len(csv) : csv[i]["Type"] = "Fusion"
  /\ \E i \in 1..Len(csv) : csv[i]["Type"] = "Organic PV"

\* ----------------------------------------------------------------- C4
\* C4: after aggregation the lengths of the per-category arrays add up to
\* three times the number of rows of the filtered table.
C4_GroupSizesSum ==
  Aggregated =>
    SumSeq([k \in 1..Len(lcoe_values) |-> Len(lcoe_values[k])]) = 3 * Len(df_lcoe)

C4_Witness ==
  /\ Aggregated
  /\ Len(df_lcoe) = 3
  /\ Len(lcoe_keys) = 2
  /\ Len(lcoe_values) = 2

\* ----------------------------------------------------------------- C5
\* C5: after ranking, each category's mean is at least the mean of the
\* category that follows it in the sorted list.
C5_MeansNonIncreasing ==
  (pc = "unpack_keys" \/ Ranked) =>
    \A i \in 1..(Len(lcoe_values) - 1) : MeanGeq(lcoe_values[i], lcoe_values[i + 1])

C5_Witness ==
  /\ Ranked
  /\ Len(lcoe_values) = 3
  /\ ~MeanGeq(lcoe_values[2], lcoe_values[1])
  /\ ~MeanGeq(lcoe_values[3], lcoe_values[2])
  /\ lcoe_keys # unique(Column(df_lcoe, "Category"))

\* ----------------------------------------------------------------- C6
\* C6: after recategorization each row's Category is category_changes[Type]
\* when its Type is a key of the table and its file Category otherwise; its
\* Type is the file's, and right after the step its numeric fields are too.
C6_Recategorized ==
  Renamed =>
    \A r \in Rows :
      /\ r["Type"] = Orig(r)["Type"]
      /\ (r["Type"] \in DOMAIN category_changes)
           => r["Category"] = category_changes[r["Type"]]
      /\ (r["Type"] \notin DOMAIN category_changes)
           => r["Category"] = Orig(r)["Category"]
      /\ pc = "unique" =>
           /\ r["LCOE"] = Orig(r)["LCOE"]
           /\ r["LCOE Low"] = Orig(r)["LCOE Low"]
           /\ r["LCOE High"] = Orig(r)["LCOE High"]

C6_Witness ==
  /\ pc = "unique"
  /\ \E r \in Rows : r["Type"] = "Onshore Wind" /\ r["Category"] # Orig(r)["Category"]
  /\ \E r \in Rows : r["Type"] = "Supercritical" /\ r["Category"] = "Coal"

\* ----------------------------------------------------------------- C7
\* C7: a row whose LCOE is missing and whose two bounds are present ends
\* imputation with LCOE = (LCOE Low + LCOE High)/2 and its bounds unchanged.
C7_PointFromBounds ==
  Imputed =>
    \A r \in Rows :
      LET o == Orig(r) IN
      (Missing(o["LCOE"]) /\ Present(o["LCOE Low"]) /\ Present(o["LCOE High"]))
        => /\ 2 * r["LCOE"] = o["LCOE Low"] + o["LCOE High"]
           /\ r["LCOE Low"] = o["LCOE Low"]
           /\ r["LCOE High"] = o["LCOE High"]

\* the spec's example: {LCOE: 0, Low: 4, High: 10} becomes {7, 4, 10}
C7_Witness ==
  /\ Imputed
  /\ \E r \in Rows :
       /\ Orig(r)["LCOE"] = 0
       /\ Orig(r)["LCOE Low"] = Scale * 4
       /\ Orig(r)["LCOE High"] = Scale * 10
       /\ r["LCOE"] = Scale * 7 /\ r["LCOE Low"] = Scale * 4 /\ r["LCOE High"] = Scale * 10

\* ----------------------------------------------------------------- C8
\* C8: a row whose LCOE is present ends imputation with LCOE unchanged, each
\* present bound unchanged and each missing bound equal to LCOE.
C8_BoundsFromPoint ==
  Imputed =>
    \A r \in Rows :
      LET o == Orig(r) IN
      Present(o["LCOE"])
        => /\ r["LCOE"] = o["LCOE"]
           /\ r["LCOE Low"] = (IF Present(o["LCOE Low"]) THEN o["LCOE Low"] ELSE o["LCOE"])
           /\ r["LCOE High"] = (IF Present(o["LCOE High"]) THEN o["LCOE High"] ELSE o["LCOE"])

\* the spec's example: {LCOE: 5, Low: 0, High: 0} becomes {5, 5, 5}
C8_Witness ==
  /\ Imputed
  /\ \E r \in Rows :
       /\ Orig(r)["LCOE"] = Scale * 5
       /\ Orig(r)["LCOE Low"] = 0
       /\ Orig(r)["LCOE High"] = 0
       /\ r["LCOE"] = Scale * 5 /\ r["LCOE Low"] = Scale * 5 /\ r["LCOE High"] = Scale * 5

\* ----------------------------------------------------------------- C9
\* C9: the array of each category in lcoe_keys has three entries per row of
\* that category: the rows' low values, then their point values, then their
\* high values, each run in table order.
C9_ArrayIsLowPointHigh ==
  (BeforeRanking \/ Ranked) =>
    /\ Len(lcoe_values) = Len(lcoe_keys)
    /\ \A k \in 1..Len(lcoe_keys) :
         LET m == MembersOf(lcoe_keys[k], Len(df_lcoe))
             n == Len(m)
         IN  /\ n = Cardinality({r \in Rows : r["Category"] = lcoe_keys[k]})
             /\ Len(lcoe_values[k]) = 3 * n
             /\ \A j \in 1..n :
                  /\ lcoe_values[k][j]         = df_lcoe[m[j]]["LCOE Low"]
                  /\ lcoe_values[k][n + j]     = df_lcoe[m[j]]["LCOE"]
                  /\ lcoe_values[k][2 * n + j] = df_lcoe[m[j]]["LCOE High"]

C9_Witness ==
  /\ BeforeRanking
  /\ Len(lcoe_keys) = 2
  /\ Len(lcoe_values[1]) = 6
  /\ Len(lcoe_values[2]) = 3
  /\ lcoe_values[1][1] # lcoe_values[1][2]
  /\ lcoe_values[1][1] # lcoe_values[1][3]
  /\ lcoe_values[1][3] # lcoe_values[1][5]

====
